---- MODULE Spec2Model ----
(***************************************************************************)
(* Behave lifecycle hooks of the Playwright BDD framework                  *)
(* (src/features/environment.py) together with the step that stores a     *)
(* value on the shared context (src/features/steps/common_steps.py).       *)
(*                                                                         *)
(* The behave runner (behave >= 1.2.6, src/setup.py:34) drives the hooks:  *)
(* before_all, then for each scenario before_scenario, the steps,          *)
(* after_scenario, and finally after_all.  An exception raised by a        *)
(* scenario hook is caught by the runner, marks the scenario failed and    *)
(* the run goes on; after_scenario is still called when before_scenario    *)
(* raised.  Attributes assigned to the context while a scenario runs live  *)
(* in the scenario layer of the context: they mask the attributes of the   *)
(* same name set by before_all and are dropped when the scenario ends.     *)
(*                                                                         *)
(* Three further specifications model what the hooks rest on:              *)
(*   ResolverSpec  ConfigManager (src/framework/config/config_manager.py), *)
(*   RunnerSpec    the command-line runner (src/run_tests.py),             *)
(*   ReporterSpec  the pass rate of the email and HTML reporters           *)
(*                 (src/framework/reporting).                              *)
(* Each specification moves its own variables and leaves the others at     *)
(* their initial values.                                                   *)
(***************************************************************************)
EXTENDS Integers, Sequences, FiniteSets, TLC

\* ---------------------------------------------------------------- bounds
MaxScenarios == 2
MaxClock == 1
MaxStores == 1
MaxAfterAll == 2
MaxExitCode == 31
MaxSignal == 31
MaxWindowsCode == 3
MaxTotal == 5

\* ------------------------------------------------------- values and inputs
\* Python None for attributes that hold a string (a tag, a stored text).
NoneVal == <<"None">>

\* The attribute was never assigned on the context (AttributeError on read).
Unset == <<"unset">>

NoTime == 0 - 1

\* Tags are sequences of characters so that startswith and upper are computed.
TagTC1 == <<"T", "C", "-", "1">>

Tagtc2 == <<"t", "c", "-", "2">>

TagSmoke == <<"s", "m", "o", "k", "e">>

TagLists == { <<>>, <<TagTC1>>, <<TagSmoke, Tagtc2>> }

\* Text read from the page by a store step: text_content() or "".
StoredTexts == { <<>>, <<"x">> }

\* The hooks test the truth value of these two attributes only.
TruthTested == { "test_case_id", "zephyr_client" }

\* Names a store step may be given: the attributes the hooks keep on the
\* context, and one name the hooks do not use.
StoreKeys == { "user_var", "scenario_start_time", "test_results", "test_case_id",
               "browser_manager", "zephyr_client", "config_manager", "logger",
               "actions" }

\* scenario.status as the runner reports it to after_scenario.
RawStatuses == { "passed", "failed", "skipped", "untested" }

ZephyrSettings == { "disabled", "enabled", "enabled_no_token" }

\* The resolved configuration the hooks read.  The two policy flags of the
\* zephyr section are written by the user and read by no hook.
JiraSettings == { "disabled", "enabled", "enabled_incomplete" }

TeamsSettings == { "disabled", "enabled" }

AllConfigs == [ zephyr : ZephyrSettings,
                jira : JiraSettings,
                teams : TeamsSettings,
                report_every_scenario : BOOLEAN,
                report_only_on_failure : BOOLEAN,
                screenshot_on_failure : BOOLEAN,
                email_enabled : BOOLEAN,
                email_on_failure_only : BOOLEAN ]

\* The configurations explored: every zephyr setting with every screenshot
\* policy; with zephyr enabled also every policy-flag pair and every email
\* policy.  Jira is varied where the Zephyr client cannot be built, Teams
\* where Zephyr is disabled.  A key that is not varied has its default
\* (get's third argument).
Configs ==
    { c \in AllConfigs :
        /\ c.jira # "disabled" =>
              c.zephyr = "enabled_no_token" /\ c.screenshot_on_failure
        /\ c.teams # "disabled" =>
              c.zephyr = "disabled" /\ c.screenshot_on_failure
        /\ c.zephyr # "enabled" =>
              /\ ~ c.report_every_scenario /\ ~ c.report_only_on_failure
              /\ ~ c.email_enabled
        /\ ~ c.email_enabled => c.email_on_failure_only
        /\ (c.report_every_scenario \/ c.report_only_on_failure) =>
              c.screenshot_on_failure /\ ~ c.email_enabled
        /\ c.email_enabled => c.screenshot_on_failure }

\* ------------------------------------------------------------------ state
VARIABLES
    config,               \* context.config_manager: resolved once, read-only
    phase,                \* "new", "running", "ended"
    pc,                   \* position inside the current scenario
    now,                  \* datetime.now()
    zephyr_client,        \* context.zephyr_client: "None" or "client"
    test_results,         \* context.test_results
    scenario,             \* the scenario object handed to the hooks
    browser_manager,      \* context.browser_manager: "unset" or "manager"
    session,              \* browser session of the current scenario
    leaked,               \* sessions of earlier scenarios never stopped
    scenario_start_time,  \* context.scenario_start_time
    test_case_id,         \* context.test_case_id
    stored,               \* names assigned by store steps in this scenario
    events,               \* what happened to the current scenario, in order
    zephyrCalls,          \* calls received by the Zephyr client, in order
    jira_client,          \* context.jira_client: "None" or "client"
    jiraCalls,            \* calls received by the Jira client, in order
    teamsCalls,           \* messages received by the Teams webhook, in order
    emailLog,             \* what the email block of after_all did, in order
    hookRaised,           \* the last scenario hook raised into the runner
    afterAllCalls         \* how many times after_all ran

vars == << config, phase, pc, now, zephyr_client, test_results, scenario,
           browser_manager, session, leaked, scenario_start_time, test_case_id,
           stored, events, zephyrCalls, jira_client, jiraCalls, teamsCalls,
           emailLog, hookRaised, afterAllCalls >>

\* ConfigManager: one construction and the lookups that follow it.
VARIABLES
    environ,              \* os.environ: the variables that are set
    config_data,          \* ConfigManager.config_data
    load_pc,              \* position inside _load_config
    source,               \* the file the last load step read
    got                   \* the last call of get and what it returned

resolverVars == << environ, config_data, load_pc, source, got >>

\* run_tests.py: one run of main().
VARIABLES
    runner_pc,            \* position inside main
    allure,               \* args.allure
    exit_code,            \* what os.system(cmd) returned
    allure_served,        \* 'allure serve' was run
    process_exit          \* the argument of sys.exit

runnerVars == << runner_pc, allure, exit_code, allure_served, process_exit >>

\* The reporters: one summary handed to each of them.
VARIABLES
    summary,              \* the test_results dictionary handed over
    email_pass_rate,      \* pass_rate of EmailReporter.send_summary_report
    html_pass_rate        \* pass_rate of HTMLReporter.generate_report

reporterVars == << summary, email_pass_rate, html_pass_rate >>

\* The tag loop of before_scenario: one tag list and the id taken from it.
VARIABLES
    scenario_tags,        \* scenario.tags
    extracted_id          \* context.test_case_id after the loop

tagVars == << scenario_tags, extracted_id >>

\* BrowserManager: one manager and the resources it started.
VARIABLES
    manager,              \* self.playwright, self.browser, self.context, self.page
    orphaned,             \* live resources no field of the manager refers to
    manager_pc,           \* how the last call of the manager ended
    in_with               \* inside a 'with BrowserManager() as ...' block

managerVars == << manager, orphaned, manager_pc, in_with >>

\* SystemMonitor: one monitor, its caller and its background threads.
VARIABLES
    enabled,              \* self.enabled
    monitoring,           \* self.monitoring
    monitor_thread,       \* self.monitor_thread: 0 is None, else a thread
    threads,              \* position of each background thread
    caller_pc,            \* position of the thread that calls start and stop
    stopped,              \* stop() returned and start() was not called since
    late_logs             \* metrics logged while stopped

monitorVars == << enabled, monitoring, monitor_thread, threads, caller_pc,
                 stopped, late_logs >>

\* ---------------------------------------------------------------- helpers
Has(key) == key \in DOMAIN stored

\* Python truthiness of a string-or-None value.
Truthy(v) == v # NoneVal /\ v # Unset /\ v # <<>>

StartsWith(s, p) == Len(s) >= Len(p) /\ SubSeq(s, 1, Len(p)) = p

UpperChar(c) ==
    CASE c = "t" -> "T"
      [] c = "c" -> "C"
      [] c = "s" -> "S"
      [] c = "m" -> "M"
      [] c = "o" -> "O"
      [] c = "k" -> "K"
      [] c = "e" -> "E"
      [] c = "x" -> "X"
      [] OTHER -> c

Upper(s) == [ i \in 1..Len(s) |-> UpperChar(s[i]) ]

TagMatches(tag) == StartsWith(tag, <<"T", "C", "-">>) \/ StartsWith(tag, <<"t", "c", "-">>)

RECURSIVE ExtractTestCaseId(_)
ExtractTestCaseId(tags) ==
    IF tags = <<>> THEN NoneVal
    ELSE IF TagMatches(Head(tags)) THEN Upper(Head(tags))
    ELSE ExtractTestCaseId(Tail(tags))

EmptyResults == [ passed |-> 0, failed |-> 0, skipped |-> 0, total |-> 0,
                  start_time |-> NoTime, end_time |-> NoTime, duration |-> NoTime,
                  scenarios |-> <<>> ]

NoScenario == [ idx |-> 0, tags |-> <<>>, status |-> "untested" ]

NoStore == [ k \in {} |-> <<>> ]

\* ------------------------------------------- values of the other components
\* A value of the configuration store: a string (s), a bool or an int (n),
\* or None.
PyStr(s) == [ t |-> "str", s |-> s, n |-> 0 ]

PyBool(b) == [ t |-> "bool", s |-> << >>, n |-> IF b THEN 1 ELSE 0 ]

PyInt(n) == [ t |-> "int", s |-> << >>, n |-> n ]

PyNone == [ t |-> "none", s |-> << >>, n |-> 0 ]

EmptyDict == [ k \in {} |-> PyNone ]

\* A top-level entry of config_data: a section (a dict) or any other value.
Section(d) == [ kind |-> "dict", d |-> d, v |-> PyNone ]

Scalar(v) == [ kind |-> "scalar", d |-> EmptyDict, v |-> v ]

\* self.config_data: Dict[str, Any] = {}
EmptyStore == [ k \in {} |-> Section(EmptyDict) ]

NoSource == [ kind |-> "none", data |-> EmptyStore ]

NoGet == [ section |-> "-", key |-> "-", default |-> PyNone,
           result |-> PyNone, raised |-> FALSE ]

ResolverIdle ==
    /\ environ = [ name \in {} |-> << >> ]
    /\ config_data = EmptyStore
    /\ load_pc = "idle"
    /\ source = NoSource
    /\ got = NoGet

NoExit == 0 - 1

\* The bit of a wait status that tells a core was dumped.
CoreFlag == 128

RunnerIdle ==
    /\ runner_pc = "idle"
    /\ allure = FALSE
    /\ exit_code = 0
    /\ allure_served = FALSE
    /\ process_exit = NoExit

\* A pass rate: the quotient num / den, or the error the division raised.
Rate(num, den) == [ kind |-> "value", num |-> num, den |-> den ]

NoRate == [ kind |-> "none", num |-> 0, den |-> 1 ]

ZeroDivisionError == [ kind |-> "ZeroDivisionError", num |-> 0, den |-> 0 ]

NoSummary == [ total |-> 0, passed |-> 0, failed |-> 0, skipped |-> 0 ]

ReporterIdle ==
    /\ summary = NoSummary
    /\ email_pass_rate = NoRate
    /\ html_pass_rate = NoRate

TagIdle ==
    /\ scenario_tags = << >>
    /\ extracted_id = Unset

\* The fields of a manager, in the order start_browser assigns them.
Kinds == << "playwright", "browser", "context", "page" >>

\* __init__: every field is None.
NewManager == [ k \in { Kinds[i] : i \in 1..4 } |-> "None" ]

ManagerIdle ==
    /\ manager = NewManager
    /\ orphaned = {}
    /\ manager_pc = "idle"
    /\ in_with = FALSE

MonitorIdle ==
    /\ enabled = FALSE
    /\ monitoring = FALSE
    /\ monitor_thread = 0
    /\ threads = << >>
    /\ caller_pc = "idle"
    /\ stopped = FALSE
    /\ late_logs = 0

\* The context before before_all, for a configuration among cfgs.
HooksStart(cfgs) ==
    /\ config \in cfgs
    /\ phase = "new"
    /\ pc = "idle"
    /\ now = 0
    /\ zephyr_client = "None"
    /\ test_results = EmptyResults
    /\ scenario = NoScenario
    /\ browser_manager = "unset"
    /\ session = "none"
    /\ leaked = 0
    /\ scenario_start_time = NoTime
    /\ test_case_id = Unset
    /\ stored = NoStore
    /\ events = <<>>
    /\ zephyrCalls = <<>>
    /\ jira_client = "None"
    /\ jiraCalls = << >>
    /\ teamsCalls = << >>
    /\ emailLog = << >>
    /\ hookRaised = FALSE
    /\ afterAllCalls = 0

Init ==
    /\ HooksStart(Configs)
    /\ ResolverIdle
    /\ RunnerIdle
    /\ ReporterIdle
    /\ TagIdle
    /\ ManagerIdle
    /\ MonitorIdle

ZephyrInit_KeepsFailedClient(cfg) ==
    IF cfg.zephyr # "disabled" THEN "client" ELSE "None"

\* ZephyrIntegration(config_manager) inside the try of before_all: the
\* constructor raises ValueError when the section has no api_token.
ZephyrInit(cfg) ==
    IF cfg.zephyr = "enabled" THEN "client" ELSE "None"

\* JiraIntegration(config_manager) inside the try of before_all: the
\* constructor raises ValueError on an incomplete section and re-raises what
\* the connection to the server raised (conn).
JiraInit(cfg, conn) ==
    IF cfg.jira = "enabled" /\ conn = "ok" THEN "client" ELSE "None"

\* before_all: the configuration, the two clients (a constructor that raises
\* is logged and leaves None), the empty totals.
before_all ==
    /\ phase = "new"
    /\ phase' = "running"
    /\ \E conn \in {"ok", "raise"} : jira_client' = JiraInit(config, conn)
    /\ zephyr_client' = ZephyrInit(config)
    /\ test_results' = [ EmptyResults EXCEPT !.start_time = now ]
    /\ UNCHANGED << config, pc, now, scenario, browser_manager, session, leaked,
                    scenario_start_time, test_case_id, stored, events,
                    zephyrCalls, jiraCalls, teamsCalls, emailLog, hookRaised,
                    afterAllCalls >>
    /\ UNCHANGED << resolverVars, runnerVars, reporterVars, tagVars, managerVars,
                   monitorVars >>

\* before_scenario: a new BrowserManager, start_browser, the start time, the
\* test case id from the tags, and the optional navigation to the base URL
\* (whose failure is only logged).  start = "fail": start_browser raised, so
\* the hook raises after assigning context.browser_manager only; the runner
\* marks the scenario failed, skips its steps and still calls after_scenario.
before_scenario ==
    /\ phase = "running"
    /\ pc = "idle"
    /\ scenario.idx < MaxScenarios
    /\ \E tags \in TagLists, start \in {"ok", "fail"}, nav \in {"ok", "raise"} :
        /\ browser_manager' = "manager"
        /\ leaked' = leaked + (IF session \in {"live", "partial"} THEN 1 ELSE 0)
        /\ IF start = "ok"
           THEN /\ session' = "live"
                /\ scenario_start_time' = now
                /\ test_case_id' = ExtractTestCaseId(tags)
                /\ scenario' = [ idx |-> scenario.idx + 1, tags |-> tags,
                                 status |-> "untested" ]
                /\ pc' = "steps"
                /\ events' = << "Pending", "Leased" >>
                /\ hookRaised' = FALSE
           ELSE /\ session' = "partial"
                /\ scenario_start_time' = NoTime
                /\ test_case_id' = Unset
                /\ scenario' = [ idx |-> scenario.idx + 1, tags |-> tags,
                                 status |-> "failed" ]
                /\ pc' = "ended"
                /\ events' = << "Pending", "Raised" >>
                /\ hookRaised' = TRUE
    /\ stored' = NoStore
    /\ UNCHANGED << config, phase, now, zephyr_client, test_results,
                    zephyrCalls, jira_client, jiraCalls, teamsCalls, emailLog,
                    afterAllCalls >>
    /\ UNCHANGED << resolverVars, runnerVars, reporterVars, tagVars, managerVars,
                   monitorVars >>

\* 'I get the text from "{selector}" and store it as "{var_name}"':
\* setattr(context, var_name, text), then context.logger.info(...).
\* The assignment lands in the scenario layer of the context.
step_get_and_store_text ==
    /\ phase = "running"
    /\ pc = "steps"
    /\ Cardinality(DOMAIN stored) < MaxStores
    /\ ~ Has("actions")
    /\ ~ Has("logger")
    /\ \E var_name \in StoreKeys \ DOMAIN stored, text \in StoredTexts :
        /\ var_name \notin TruthTested => text = <<"x">>
        /\ stored' = [ k \in DOMAIN stored \cup {var_name} |->
                      IF k = var_name THEN text ELSE stored[k] ]
    /\ UNCHANGED << config, phase, pc, now, zephyr_client, test_results, scenario,
                    browser_manager, session, leaked, scenario_start_time,
                    test_case_id, events, zephyrCalls, jira_client, jiraCalls,
                    teamsCalls, emailLog, hookRaised, afterAllCalls >>
    /\ UNCHANGED << resolverVars, runnerVars, reporterVars, tagVars, managerVars,
                   monitorVars >>

\* The runner executes the steps and computes scenario.status.  A store step
\* that masked context.logger fails at its own logging line.
run_steps ==
    /\ phase = "running"
    /\ pc = "steps"
    /\ \E raw \in RawStatuses :
        /\ Has("logger") => raw = "failed"
        /\ scenario' = [ scenario EXCEPT !.status = raw ]
    /\ pc' = "ended"
    /\ events' = Append(events, "Executing")
    /\ UNCHANGED << config, phase, now, zephyr_client, test_results,
                    browser_manager, session, leaked, scenario_start_time,
                    test_case_id, stored, zephyrCalls, jira_client, jiraCalls,
                    teamsCalls, emailLog, hookRaised, afterAllCalls >>
    /\ UNCHANGED << resolverVars, runnerVars, reporterVars, tagVars, managerVars,
                   monitorVars >>

\* status = 'passed' if scenario.status == 'passed' else 'failed'
DetermineStatus(raw) ==
    IF raw = "passed" THEN "passed" ELSE "failed"

\* The counters of context.test_results after one scenario.
UpdateCounters(tr, raw) ==
    LET t1 == [ tr EXCEPT !.total = @ + 1 ]
    IN  IF raw = "passed" THEN [ t1 EXCEPT !.passed = @ + 1 ]
        ELSE IF raw = "failed" THEN [ t1 EXCEPT !.failed = @ + 1 ]
        ELSE [ t1 EXCEPT !.skipped = @ + 1 ]

\* scenario_result; error and screenshot are the keys added for a failure.
ScenarioResult(sc, status, tcid, shot) ==
    [ name |-> sc.idx, status |-> status,
      tags |-> sc.tags, test_case_id |-> tcid,
      error |-> (sc.status = "failed"),
      screenshot |-> (sc.status = "failed" /\ shot) ]

AppendResult_Prepend(list, entry) == << entry >> \o list

\* context.test_results['scenarios'].append(scenario_result)
AppendResult(list, entry) == Append(list, entry)

ShouldUpdateZephyr_AnyScenario(clientTruthy, tcid) == clientTruthy

ShouldUpdateZephyr_OnFailureOnly(clientTruthy, tcid) ==
    clientTruthy /\ Truthy(tcid) /\ scenario.status # "passed"

\* if context.zephyr_client and context.test_case_id:
ShouldUpdateZephyr(clientTruthy, tcid) == clientTruthy /\ Truthy(tcid)

\* status='Pass' if status == 'passed' else 'Fail'
ZephyrStatus(status) == IF status = "passed" THEN "Pass" ELSE "Fail"

\* try/except Exception around the screenshot, the Zephyr update and stop():
\* whether an exception raised by the call leaves the hook.
ScreenshotErrorEscapes(outcome) == FALSE

ZephyrErrorEscapes_Propagates(outcome) == outcome = "raise"

ZephyrErrorEscapes(outcome) == FALSE

StopErrorEscapes(outcome) == FALSE

\* What the hook reads from the context: a name assigned by a store step
\* masks the attribute the hooks set.
SeenTestCaseId == IF Has("test_case_id") THEN stored["test_case_id"] ELSE test_case_id

SeenZephyrTruthy ==
    IF Has("zephyr_client") THEN Truthy(stored["zephyr_client"])
    ELSE zephyr_client # "None"

StatusEvent(status) == IF status = "passed" THEN "Passed" ELSE "Failed"

HookTail_ReleaseFirst(zEv, sEv) == sEv \o zEv \o << "Reported" >>

\* The end of after_scenario: the Zephyr update (181-191), then
\* context.browser_manager.stop() (193-197).
HookTail(zEv, sEv) == zEv \o << "Reported" >> \o sEv

\* after_scenario, line by line.  shot, z and s are the outcomes of
\* take_screenshot, update_test_execution and BrowserManager.stop.
\* The result is what the hook leaves behind: the totals, the event log, the
\* calls the Zephyr client received, the session and whether the hook raised.
AfterScenarioRun(shot, z, s) ==
    LET raw      == scenario.status
        r125     == scenario_start_time = NoTime \/ Has("scenario_start_time")
        status   == DetermineStatus(raw)
        r132     == Has("logger")
        r139     == raw = "failed" /\ Has("config_manager")
        tryShot  == raw = "failed" /\ config.screenshot_on_failure /\ ~ Has("actions")
        shotDone == tryShot /\ shot = "ok"
        shotEsc  == tryShot /\ shot = "raise" /\ ScreenshotErrorEscapes(shot)
        shotEv   == IF tryShot
                    THEN IF shot = "ok" THEN << "Screenshot" >>
                         ELSE << "Screenshot", "ScreenshotError" >>
                    ELSE << >>
        r156     == Has("test_results")
        entry    == ScenarioResult(scenario, status, SeenTestCaseId, shotDone)
        counted  == UpdateCounters(test_results, raw)
        recorded == [ counted EXCEPT !.scenarios = AppendResult(@, entry) ]
        callZ    == ShouldUpdateZephyr(SeenZephyrTruthy, SeenTestCaseId)
        toClient == callZ /\ ~ Has("zephyr_client")
        zOut     == IF toClient THEN z ELSE "raise"
        zEsc     == callZ /\ zOut = "raise" /\ ZephyrErrorEscapes(zOut)
        zEv      == IF callZ
                    THEN << "ZephyrAttempt",
                            IF zOut = "ok" THEN "ZephyrOk"
                            ELSE IF zOut = "false" THEN "ZephyrFalse"
                            ELSE "ZephyrError" >>
                    ELSE << >>
        zLog     == IF toClient
                    THEN Append(zephyrCalls,
                                [ scenario |-> scenario.idx,
                                  test_case_key |-> SeenTestCaseId,
                                  status |-> ZephyrStatus(status) ])
                    ELSE zephyrCalls
        toMgr    == ~ Has("browser_manager")
        sOut     == IF toMgr THEN s ELSE "raise"
        sEsc     == sOut = "raise" /\ StopErrorEscapes(sOut)
        sEv      == IF toMgr
                    THEN IF s = "ok" THEN << "Stop" >> ELSE << "Stop", "StopError" >>
                    ELSE << "StopError" >>
        sSess    == IF toMgr /\ s = "ok" THEN "stopped" ELSE session
        base     == [ tr |-> test_results, ev |-> events, zc |-> zephyrCalls,
                      sess |-> session, raised |-> TRUE ]
    IN  IF r125 THEN
            [ base EXCEPT !.ev = events \o << "Raised" >> ]
        ELSE IF r132 \/ r139 THEN
            [ base EXCEPT !.ev = events \o << StatusEvent(status), "Raised" >> ]
        ELSE IF shotEsc \/ r156 THEN
            [ base EXCEPT !.ev = events \o << StatusEvent(status) >> \o shotEv
                                  \o << "Raised" >> ]
        ELSE IF zEsc THEN
            [ tr |-> recorded,
              ev |-> events \o << StatusEvent(status) >> \o shotEv
                       \o << "Recorded" >> \o zEv \o << "Raised" >>,
              zc |-> zLog, sess |-> session, raised |-> TRUE ]
        ELSE
            [ tr |-> recorded,
              ev |-> events \o << StatusEvent(status) >> \o shotEv
                       \o << "Recorded" >> \o HookTail(zEv, sEv)
                       \o (IF sEsc THEN << "Raised" >> ELSE << >>),
              zc |-> zLog, sess |-> sSess, raised |-> sEsc ]

\* The runner calls after_scenario and then drops the scenario layer of the
\* context (browser_manager, scenario_start_time, test_case_id, stored names).
after_scenario ==
    /\ phase = "running"
    /\ pc = "ended"
    /\ \E shot \in {"ok", "raise"}, z \in {"ok", "false", "raise"}, s \in {"ok", "raise"} :
        LET r == AfterScenarioRun(shot, z, s)
        IN  /\ test_results' = r.tr
            /\ events' = r.ev
            /\ zephyrCalls' = r.zc
            /\ session' = r.sess
            /\ hookRaised' = r.raised
    /\ pc' = "idle"
    /\ browser_manager' = "unset"
    /\ scenario_start_time' = NoTime
    /\ test_case_id' = Unset
    /\ stored' = NoStore
    /\ UNCHANGED << config, phase, now, zephyr_client, scenario, leaked,
                    jira_client, jiraCalls, teamsCalls, emailLog, afterAllCalls >>
    /\ UNCHANGED << resolverVars, runnerVars, reporterVars, tagVars, managerVars,
                   monitorVars >>

ShouldSendEmail_Always(cfg, tr) == TRUE

\* if not email_on_failure_only or context.test_results['failed'] > 0:
ShouldSendEmail(cfg, tr) ==
    ~ cfg.email_on_failure_only \/ tr.failed > 0

\* The email block of after_all: the reporter is built and the summary sent
\* inside one try; "Send" is one call of send_summary_report.
EmailBlock(cfg, tr, ctor, send) ==
    IF ~ cfg.email_enabled THEN << >>
    ELSE IF ctor = "raise" THEN << "InitError" >>
    ELSE IF ~ ShouldSendEmail(cfg, tr) THEN << >>
    ELSE IF send = "raise" THEN << "Send", "SendError" >>
    ELSE << "Send" >>

\* context.test_results['end_time'] = datetime.now(); duration = end - start
Finalize(tr, t) ==
    [ tr EXCEPT !.end_time = t, !.duration = t - tr.start_time ]

\* after_all: end time and duration, the summary log, the email report.
\* datetime.now() returns t, any time not before the previous reading.
\* ctor and send are the outcomes of EmailReporter(...) and
\* send_summary_report; both are inside the try.
after_all ==
    /\ \/ phase = "running" /\ pc = "idle"
       \/ phase = "ended"
    /\ afterAllCalls < MaxAfterAll
    /\ \E t \in now..MaxClock :
        /\ now' = t
        /\ test_results' = Finalize(test_results, t)
    /\ \E ctor \in {"ok", "raise"}, send \in {"ok", "false", "raise"} :
        emailLog' = emailLog \o EmailBlock(config, test_results', ctor, send)
    /\ phase' = "ended"
    /\ afterAllCalls' = afterAllCalls + 1
    /\ events' = << >>
    /\ hookRaised' = FALSE
    /\ UNCHANGED << config, pc, zephyr_client, scenario, browser_manager,
                    session, leaked, scenario_start_time, test_case_id, stored,
                    zephyrCalls, jira_client, jiraCalls, teamsCalls >>
    /\ UNCHANGED << resolverVars, runnerVars, reporterVars, tagVars, managerVars,
                   monitorVars >>

Next ==
    \/ before_all
    \/ before_scenario
    \/ step_get_and_store_text
    \/ run_steps
    \/ after_scenario
    \/ after_all

Spec == Init /\ [][Next]_vars

\* ------------------------------------------------------------ ConfigManager
\* Texts are sequences of characters, so that startswith, endswith, lower,
\* isdigit and json.loads are computed on them.
TextTrue == << "t", "r", "u", "e" >>

TextFalse == << "f", "a", "l", "s", "e" >>

TextNull == << "n", "u", "l", "l" >>

TextTrueCap == << "T", "r", "u", "e" >>

Text42 == << "4", "2" >>

Text07 == << "0", "7" >>

TextWeb == << "w" >>

\* ${V}: a reference to the environment variable V.
TextRef == << "$", "{", "V", "}" >>

EnvV == << "V" >>

HEADLESS == << "H", "E", "A", "D", "L", "E", "S", "S" >>

\* env_mappings; the row explored is "HEADLESS": ("framework", "headless").
env_mappings ==
    << [ env_var |-> HEADLESS, section |-> "framework", key |-> "headless" ] >>

\* What the values of a file are drawn from.
IniTexts == { TextTrue, TextTrueCap, Text42, Text07, TextWeb, TextRef }

JsonValues == { PyStr(TextWeb), PyStr(TextTrueCap), PyStr(TextRef),
                PyBool(TRUE), PyInt(42) }

\* What the environment holds: HEADLESS and V, each set to a text or not set.
\* HEADLESS may also hold the text of a reference.
Environs ==
    { e \in [ { HEADLESS, EnvV } ->
                { Unset, << >>, TextTrue, TextTrueCap, Text42, Text07, TextWeb,
                  TextRef } ] :
        e[EnvV] # TextRef }

FileKeys == { "headless", "locale" }

\* The dictionaries over some of the keys.
DictsOver(keys, values) == UNION { [ K -> values ] : K \in SUBSET keys }

\* A parsed INI file: sections of raw strings.
IniFiles ==
    { [ kind |-> "ini", data |-> [ sec \in {"framework"} |-> Section(d) ] ] :
        d \in DictsOver(FileKeys, { PyStr(t) : t \in IniTexts }) }

\* A parsed JSON file: a top-level object whose members are objects or not.
JsonFiles ==
    { [ kind |-> "json", data |-> [ sec \in {"framework"} |-> Section(d) ] ] :
        d \in DictsOver(FileKeys, JsonValues) }
    \cup { [ kind |-> "json",
             data |-> [ sec \in {"framework"} |-> Scalar(PyStr(TextWeb)) ] ] }

\* os.getenv(name, default)
Getenv(env, name, default) ==
    IF name \in DOMAIN env /\ env[name] # Unset THEN env[name] ELSE default

EndsWith(s, p) ==
    Len(s) >= Len(p) /\ SubSeq(s, Len(s) - Len(p) + 1, Len(s)) = p

LowerChar(c) ==
    CASE c = "T" -> "t"
      [] c = "R" -> "r"
      [] c = "U" -> "u"
      [] c = "E" -> "e"
      [] c = "F" -> "f"
      [] c = "A" -> "a"
      [] c = "L" -> "l"
      [] c = "S" -> "s"
      [] c = "V" -> "v"
      [] c = "H" -> "h"
      [] c = "D" -> "d"
      [] OTHER -> c

Lower(s) == [ i \in 1..Len(s) |-> LowerChar(s[i]) ]

Digits == { "0", "1", "2", "3", "4", "5", "6", "7", "8", "9" }

DigitValue(c) ==
    CASE c = "0" -> 0 [] c = "1" -> 1 [] c = "2" -> 2 [] c = "3" -> 3
      [] c = "4" -> 4 [] c = "5" -> 5 [] c = "6" -> 6 [] c = "7" -> 7
      [] c = "8" -> 8 [] OTHER -> 9

\* str.isdigit(): not empty and every character a digit.
IsDigit(s) == Len(s) > 0 /\ \A i \in 1..Len(s) : s[i] \in Digits

\* int(s) for a string of digits.
RECURSIVE ParseInt(_)
ParseInt(s) ==
    IF s = << >> THEN 0
    ELSE 10 * ParseInt(SubSeq(s, 1, Len(s) - 1)) + DigitValue(s[Len(s)])

\* json.loads(text) on the texts explored (no quotes, brackets, sign or
\* fraction): the three literals and the numbers without a leading zero are
\* JSON; anything else raises JSONDecodeError.
JsonLoads(text) ==
    IF text = TextTrue THEN [ ok |-> TRUE, value |-> PyBool(TRUE) ]
    ELSE IF text = TextFalse THEN [ ok |-> TRUE, value |-> PyBool(FALSE) ]
    ELSE IF text = TextNull THEN [ ok |-> TRUE, value |-> PyNone ]
    ELSE IF IsDigit(text) /\ (Len(text) = 1 \/ text[1] # "0")
         THEN [ ok |-> TRUE, value |-> PyInt(ParseInt(text)) ]
    ELSE [ ok |-> FALSE, value |-> PyNone ]

\* _load_ini, the body of the loop over the keys: the ${VAR_NAME}
\* substitution, then json.loads with the text kept when it does not parse.
IniValue(env, text) ==
    LET value == IF StartsWith(text, << "$", "{" >>) /\ EndsWith(text, << "}" >>)
                 THEN Getenv(env, SubSeq(text, 3, Len(text) - 1), text)
                 ELSE text
        parsed == JsonLoads(value)
    IN  IF parsed.ok THEN parsed.value ELSE PyStr(value)

\* _load_environment_variables, the conversion of a value that is set.
EnvValue(value) ==
    IF Lower(value) \in { TextTrue, TextFalse } THEN PyBool(Lower(value) = TextTrue)
    ELSE IF IsDigit(value) THEN PyInt(ParseInt(value))
    ELSE PyStr(value)

\* d1.update(d2), and the same for a sequence of item assignments.
Update(d1, d2) ==
    [ k \in DOMAIN d1 \cup DOMAIN d2 |-> IF k \in DOMAIN d2 THEN d2[k] ELSE d1[k] ]

\* self.config_data[section] = entry
SetEntry(store, section, entry) ==
    [ k \in DOMAIN store \cup {section} |-> IF k = section THEN entry ELSE store[k] ]

\* One section of an INI file: the section is created when missing, then
\* every key is assigned.  An item assignment on an entry that is not a
\* dictionary raises TypeError.
LoadIniSection(store, env, section, raw) ==
    LET values == [ k \in DOMAIN raw |-> IniValue(env, raw[k].s) ]
    IN  IF section \notin DOMAIN store
        THEN [ store |-> SetEntry(store, section, Section(values)), raised |-> FALSE ]
        ELSE IF store[section].kind = "dict"
        THEN [ store |-> SetEntry(store, section,
                                  Section(Update(store[section].d, values))),
               raised |-> FALSE ]
        ELSE [ store |-> store, raised |-> DOMAIN raw # {} ]

\* One member of a JSON file: a dictionary is merged into the entry with
\* update (AttributeError on an entry that is not a dictionary), any other
\* value replaces the entry.
LoadJsonMember(store, key, member) ==
    IF member.kind = "dict"
    THEN IF key \notin DOMAIN store
         THEN [ store |-> SetEntry(store, key, Section(member.d)), raised |-> FALSE ]
         ELSE IF store[key].kind = "dict"
         THEN [ store |-> SetEntry(store, key,
                                   Section(Update(store[key].d, member.d))),
                raised |-> FALSE ]
         ELSE [ store |-> store, raised |-> TRUE ]
    ELSE [ store |-> SetEntry(store, key, member), raised |-> FALSE ]

\* The loop over the sections of a file; it stops where a step raises.
RECURSIVE LoadMembers(_, _, _, _)
LoadMembers(store, env, file, todo) ==
    IF todo = {} THEN [ store |-> store, raised |-> FALSE ]
    ELSE LET sec == CHOOSE x \in todo : TRUE
             r   == IF file.kind = "ini"
                    THEN LoadIniSection(store, env, sec, file.data[sec].d)
                    ELSE LoadJsonMember(store, sec, file.data[sec])
         IN  IF r.raised THEN r
             ELSE LoadMembers(r.store, env, file, todo \ {sec})

\* _load_ini(path) or _load_json(path); a file that does not exist is skipped.
LoadFile(store, env, file) ==
    IF file.kind = "none" THEN [ store |-> store, raised |-> FALSE ]
    ELSE LoadMembers(store, env, file, DOMAIN file.data)

\* _load_environment_variables: the loop over the rows of env_mappings.
RECURSIVE LoadRows(_, _, _)
LoadRows(store, env, rows) ==
    IF rows = << >> THEN [ store |-> store, raised |-> FALSE ]
    ELSE LET row   == Head(rows)
             value == Getenv(env, row.env_var, << >>)
         IN  IF value = << >> THEN LoadRows(store, env, Tail(rows))
             ELSE IF row.section \notin DOMAIN store
             THEN LoadRows(SetEntry(store, row.section,
                              Section(Update(EmptyDict,
                                  [ k \in {row.key} |-> EnvValue(value) ]))),
                           env, Tail(rows))
             ELSE IF store[row.section].kind = "dict"
             THEN LoadRows(SetEntry(store, row.section,
                              Section(Update(store[row.section].d,
                                  [ k \in {row.key} |-> EnvValue(value) ]))),
                           env, Tail(rows))
             ELSE [ store |-> store, raised |-> TRUE ]

\* self.config_data.get(section, {}).get(key, default): the second get is
\* called on whatever the entry is, and only a dictionary has it.
Get(store, section, key, default) ==
    IF section \notin DOMAIN store
    THEN [ result |-> default, raised |-> FALSE ]
    ELSE IF store[section].kind # "dict"
    THEN [ result |-> PyNone, raised |-> TRUE ]
    ELSE IF key \in DOMAIN store[section].d
    THEN [ result |-> store[section].d[key], raised |-> FALSE ]
    ELSE [ result |-> default, raised |-> FALSE ]

\* The hooks' configuration when nothing is configured: get's defaults.
PlainConfig ==
    [ zephyr |-> "disabled", jira |-> "disabled", teams |-> "disabled",
      report_every_scenario |-> FALSE, report_only_on_failure |-> FALSE,
      screenshot_on_failure |-> TRUE, email_enabled |-> FALSE,
      email_on_failure_only |-> TRUE ]

\* ConfigManager(...) is about to run _load_config in some environment.
ResolverInit ==
    /\ HooksStart({PlainConfig})
    /\ RunnerIdle
    /\ ReporterIdle
    /\ environ \in Environs
    /\ config_data = EmptyStore
    /\ load_pc = "start"
    /\ source = NoSource
    /\ got = NoGet
    /\ TagIdle
    /\ ManagerIdle
    /\ MonitorIdle

\* 1. config.ini of the config directory, if it exists.
load_default_ini ==
    /\ load_pc = "start"
    /\ \E file \in IniFiles \cup {NoSource} :
        LET r == LoadFile(config_data, environ, file)
        IN  /\ config_data' = r.store
            /\ load_pc' = IF r.raised THEN "raised" ELSE "ini_loaded"
            /\ source' = file
    /\ UNCHANGED << environ, got >>
    /\ UNCHANGED << vars, runnerVars, reporterVars, tagVars, managerVars,
                   monitorVars >>

\* 2. {env}.json of the config directory, if it exists.
load_env_json ==
    /\ load_pc = "ini_loaded"
    /\ \E file \in JsonFiles \cup {NoSource} :
        LET r == LoadFile(config_data, environ, file)
        IN  /\ config_data' = r.store
            /\ load_pc' = IF r.raised THEN "raised" ELSE "json_loaded"
            /\ source' = file
    /\ UNCHANGED << environ, got >>
    /\ UNCHANGED << vars, runnerVars, reporterVars, tagVars, managerVars,
                   monitorVars >>

\* 3. config_file, if given and existing: an .ini or a .json file.
load_custom_file ==
    /\ load_pc = "json_loaded"
    /\ \E file \in IniFiles \cup JsonFiles \cup {NoSource} :
        LET r == LoadFile(config_data, environ, file)
        IN  /\ config_data' = r.store
            /\ load_pc' = IF r.raised THEN "raised" ELSE "custom_loaded"
            /\ source' = file
    /\ UNCHANGED << environ, got >>
    /\ UNCHANGED << vars, runnerVars, reporterVars, tagVars, managerVars,
                   monitorVars >>

\* 4. the environment variables of env_mappings.
load_environment_variables ==
    /\ load_pc = "custom_loaded"
    /\ LET r == LoadRows(config_data, environ, env_mappings)
       IN  /\ config_data' = r.store
           /\ load_pc' = IF r.raised THEN "raised" ELSE "loaded"
    /\ source' = NoSource
    /\ UNCHANGED << environ, got >>
    /\ UNCHANGED << vars, runnerVars, reporterVars, tagVars, managerVars,
                   monitorVars >>

GetSections == { "framework", "database" }

GetKeys == { "headless", "locale", "timeout" }

GetDefaults == { PyNone, PyStr(TextWeb) }

\* config_manager.get(section, key, default) on the constructed manager.
get ==
    /\ load_pc = "loaded"
    /\ \E section \in GetSections, key \in GetKeys, default \in GetDefaults :
        LET r == Get(config_data, section, key, default)
        IN  got' = [ section |-> section, key |-> key, default |-> default,
                     result |-> r.result, raised |-> r.raised ]
    /\ UNCHANGED << environ, config_data, load_pc, source >>
    /\ UNCHANGED << vars, runnerVars, reporterVars, tagVars, managerVars,
                   monitorVars >>

ResolverNext ==
    \/ load_default_ini
    \/ load_env_json
    \/ load_custom_file
    \/ load_environment_variables
    \/ get

ResolverSpec == ResolverInit /\ [][ResolverNext]_resolverVars

\* ------------------------------------------------------------- run_tests.py
\* What os.system(cmd) returns.  On POSIX it is the wait status of the shell:
\* the exit code in the high byte when the command exited, the signal number
\* in the low byte (plus CoreFlag when a core was dumped) when it was killed.
\* On Windows it is the exit code of the command itself.
ExitedStatus(code) == code * 256

SignaledStatus(sig, core) == sig + (IF core THEN CoreFlag ELSE 0)

WaitStatuses ==
    { ExitedStatus(code) : code \in 0..MaxExitCode }
    \cup { SignaledStatus(sig, core) : sig \in 1..MaxSignal, core \in BOOLEAN }
    \cup { code : code \in 0..MaxWindowsCode }

\* main() has parsed the arguments and built the behave command.
RunnerInit ==
    /\ HooksStart({PlainConfig})
    /\ ResolverIdle
    /\ ReporterIdle
    /\ runner_pc = "start"
    /\ allure \in BOOLEAN
    /\ exit_code = 0
    /\ allure_served = FALSE
    /\ process_exit = NoExit
    /\ TagIdle
    /\ ManagerIdle
    /\ MonitorIdle

\* exit_code = os.system(cmd)
execute_command ==
    /\ runner_pc = "start"
    /\ runner_pc' = "executed"
    /\ exit_code' \in WaitStatuses
    /\ UNCHANGED << allure, allure_served, process_exit >>
    /\ UNCHANGED << vars, resolverVars, reporterVars, tagVars, managerVars,
                   monitorVars >>

\* if args.allure and exit_code == 0: os.system('allure serve allure-results')
generate_allure_report ==
    /\ runner_pc = "executed"
    /\ runner_pc' = "reported"
    /\ allure_served' = (allure /\ exit_code = 0)
    /\ UNCHANGED << allure, exit_code, process_exit >>
    /\ UNCHANGED << vars, resolverVars, reporterVars, tagVars, managerVars,
                   monitorVars >>

\* The argument of sys.exit: exit_code >> 8.
ExitArgument(status) == status \div 256

\* sys.exit(exit_code >> 8)
sys_exit ==
    /\ runner_pc = "reported"
    /\ runner_pc' = "exited"
    /\ process_exit' = ExitArgument(exit_code)
    /\ UNCHANGED << allure, exit_code, allure_served >>
    /\ UNCHANGED << vars, resolverVars, reporterVars, tagVars, managerVars,
                   monitorVars >>

RunnerNext ==
    \/ execute_command
    \/ generate_allure_report
    \/ sys_exit

RunnerSpec == RunnerInit /\ [][RunnerNext]_runnerVars

\* ---------------------------------------------------------------- reporters
\* The summaries handed to the reporters: the totals the hooks can leave.
Summaries ==
    { t \in [ total : 0..MaxTotal, passed : 0..MaxTotal, failed : 0..MaxTotal,
              skipped : 0..MaxTotal ] :
        t.passed + t.failed + t.skipped = t.total }

\* Python's a / b: the quotient, or ZeroDivisionError.
Divide(a, b) == IF b = 0 THEN ZeroDivisionError ELSE Rate(a, b)

EmailPassRate_Unguarded(tr) == Divide(tr.passed * 100, tr.total)

\* email_reporter.py: pass_rate = (passed / total * 100) if total > 0 else 0
EmailPassRate(tr) ==
    IF tr.total > 0 THEN Divide(tr.passed * 100, tr.total) ELSE Rate(0, 1)

\* html_reporter.py: pass_rate = (passed / total * 100) if total > 0 else 0
HtmlPassRate(tr) ==
    IF tr.total > 0 THEN Divide(tr.passed * 100, tr.total) ELSE Rate(0, 1)

\* A run has ended with some totals and no report has been made yet.
ReporterInit ==
    /\ HooksStart({PlainConfig})
    /\ ResolverIdle
    /\ RunnerIdle
    /\ summary \in Summaries
    /\ email_pass_rate = NoRate
    /\ html_pass_rate = NoRate
    /\ TagIdle
    /\ ManagerIdle
    /\ MonitorIdle

\* EmailReporter.send_summary_report(test_results)
send_summary_report ==
    /\ email_pass_rate = NoRate
    /\ email_pass_rate' = EmailPassRate(summary)
    /\ UNCHANGED << summary, html_pass_rate >>
    /\ UNCHANGED << vars, resolverVars, runnerVars, tagVars, managerVars,
                   monitorVars >>

\* HTMLReporter.generate_report(test_results)
generate_report ==
    /\ html_pass_rate = NoRate
    /\ html_pass_rate' = HtmlPassRate(summary)
    /\ UNCHANGED << summary, email_pass_rate >>
    /\ UNCHANGED << vars, resolverVars, runnerVars, tagVars, managerVars,
                   monitorVars >>

ReporterNext ==
    \/ send_summary_report
    \/ generate_report

ReporterSpec == ReporterInit /\ [][ReporterNext]_reporterVars

\* ------------------------------------------------- the tag loop on its own
\* environment.py 104-110, applied to every short list of tags.
MaxTags == 3

TagTc3 == <<"T", "c", "-", "3">>

TagtC4 == <<"t", "C", "-", "4">>

TagPool == { TagTC1, Tagtc2, TagTc3, TagtC4, TagSmoke }

TagInputs == UNION { [ 1..n -> TagPool ] : n \in 0..MaxTags }

TagInit ==
    /\ HooksStart({PlainConfig})
    /\ ResolverIdle
    /\ RunnerIdle
    /\ ReporterIdle
    /\ ManagerIdle
    /\ MonitorIdle
    /\ scenario_tags \in TagInputs
    /\ extracted_id = Unset

\* context.test_case_id = None, then the loop over scenario.tags.
extract_test_case_id ==
    /\ extracted_id = Unset
    /\ extracted_id' = ExtractTestCaseId(scenario_tags)
    /\ UNCHANGED scenario_tags
    /\ UNCHANGED << vars, resolverVars, runnerVars, reporterVars, managerVars,
                   monitorVars >>

TagNext == extract_test_case_id

TagSpec == TagInit /\ [][TagNext]_tagVars

\* ----------------------------------------------------------- BrowserManager
\* A field of the manager is "None" or refers to a resource that is "live"
\* or "closed".
Position(kind) == CHOOSE i \in 1..4 : Kinds[i] = kind

\* start_browser when its first `done` calls return and the next one raises:
\* sync_playwright().start() (47), launch (58), new_context (62),
\* new_page (65), set_default_timeout (69).  Each of the first four assigns
\* its field as soon as it returns.
StartBrowser(m, done) ==
    [ k \in DOMAIN m |-> IF Position(k) <= done THEN "live" ELSE m[k] ]

\* Resources that were live in a field which start_browser assigned anew.
Overwritten(m, done) == { k \in DOMAIN m : Position(k) <= done /\ m[k] = "live" }

\* The calls of stop, in its order: page.close(), context.close(),
\* browser.close(), playwright.stop(); the j-th one is made when its field
\* is not None.
StopOrder(j) == Kinds[5 - j]

\* stop when the call on raiseAt raises (0: none raises) and leaves its
\* resource in the state `left`: the calls before it closed their resources,
\* the ones after it are not made, and the fields are reset to None only
\* when no call raised (170-173).
Stop(m, raiseAt, left) ==
    IF raiseAt = 0 THEN NewManager
    ELSE [ k \in DOMAIN m |->
             IF m[k] = "None" THEN "None"
             ELSE IF Position(k) > Position(StopOrder(raiseAt)) THEN "closed"
             ELSE IF k = StopOrder(raiseAt) THEN left
             ELSE m[k] ]

\* The calls of stop that can raise: those that are made.
CanRaise(m) == { 0 } \cup { j \in 1..4 : m[StopOrder(j)] # "None" }

ManagerInit ==
    /\ HooksStart({PlainConfig})
    /\ ResolverIdle
    /\ RunnerIdle
    /\ ReporterIdle
    /\ TagIdle
    /\ MonitorIdle
    /\ manager = NewManager
    /\ orphaned = {}
    /\ manager_pc = "new"
    /\ in_with = FALSE

start_browser ==
    /\ \E done \in 0..5 :
        /\ manager' = StartBrowser(manager, done)
        /\ orphaned' = orphaned \cup Overwritten(manager, done)
        /\ manager_pc' = IF done = 5 THEN "started" ELSE "start_raised"
    /\ UNCHANGED in_with
    /\ UNCHANGED << vars, resolverVars, runnerVars, reporterVars, tagVars,
                   monitorVars >>

stop ==
    /\ \E raiseAt \in CanRaise(manager), left \in { "live", "closed" } :
        /\ raiseAt # 0 => manager[StopOrder(raiseAt)] \in { left, "live" }
        /\ manager' = Stop(manager, raiseAt, left)
        /\ manager_pc' = IF raiseAt = 0 THEN "stopped" ELSE "stop_raised"
    /\ UNCHANGED << orphaned, in_with >>
    /\ UNCHANGED << vars, resolverVars, runnerVars, reporterVars, tagVars,
                   monitorVars >>

\* __enter__: start_browser(), then return self; the block is entered only
\* when start_browser returned.
enter ==
    /\ ~ in_with
    /\ \E done \in 0..5 :
        /\ manager' = StartBrowser(manager, done)
        /\ orphaned' = orphaned \cup Overwritten(manager, done)
        /\ manager_pc' = IF done = 5 THEN "started" ELSE "start_raised"
        /\ in_with' = (done = 5)
    /\ UNCHANGED << vars, resolverVars, runnerVars, reporterVars, tagVars,
                   monitorVars >>

\* __exit__: stop(), called when the block is left.
exit ==
    /\ in_with
    /\ \E raiseAt \in CanRaise(manager), left \in { "live", "closed" } :
        /\ raiseAt # 0 => manager[StopOrder(raiseAt)] \in { left, "live" }
        /\ manager' = Stop(manager, raiseAt, left)
        /\ manager_pc' = IF raiseAt = 0 THEN "stopped" ELSE "stop_raised"
    /\ in_with' = FALSE
    /\ UNCHANGED orphaned
    /\ UNCHANGED << vars, resolverVars, runnerVars, reporterVars, tagVars,
                   monitorVars >>

ManagerNext ==
    \/ start_browser
    \/ stop
    \/ enter
    \/ exit

ManagerSpec == ManagerInit /\ [][ManagerNext]_managerVars

\* ------------------------------------------------------------ SystemMonitor
\* Threads the monitor may create, and metrics lines counted after a stop.
MaxThreads == 2

MaxLateLogs == 1

\* A background thread is at the test of its while loop ("check"), inside
\* log_current_metrics ("log"), inside time.sleep ("sleep"), or over ("dead").
MonitorInit ==
    /\ HooksStart({PlainConfig})
    /\ ResolverIdle
    /\ RunnerIdle
    /\ ReporterIdle
    /\ TagIdle
    /\ ManagerIdle
    /\ enabled \in BOOLEAN
    /\ monitoring = FALSE
    /\ monitor_thread = 0
    /\ threads = << >>
    /\ caller_pc = "idle"
    /\ stopped = FALSE
    /\ late_logs = 0

\* start(): returns at once when disabled or already monitoring; else sets
\* the flag, creates the thread and starts it.
start ==
    /\ caller_pc = "idle"
    /\ IF enabled /\ ~ monitoring
       THEN /\ Len(threads) < MaxThreads
            /\ monitoring' = TRUE
            /\ threads' = Append(threads, "check")
            /\ monitor_thread' = Len(threads) + 1
       ELSE UNCHANGED << monitoring, threads, monitor_thread >>
    /\ stopped' = FALSE
    /\ UNCHANGED << enabled, caller_pc, late_logs >>
    /\ UNCHANGED << vars, resolverVars, runnerVars, reporterVars, tagVars,
                   managerVars >>

\* stop() up to monitor_thread.join(timeout=5): the flag is cleared and the
\* caller waits for the thread; with no flag or no thread stop() returns.
stop_monitor ==
    /\ caller_pc = "idle"
    /\ IF monitoring /\ monitor_thread # 0
       THEN /\ monitoring' = FALSE
            /\ caller_pc' = "joining"
            /\ UNCHANGED stopped
       ELSE /\ monitoring' = FALSE
            /\ stopped' = TRUE
            /\ UNCHANGED caller_pc
    /\ UNCHANGED << enabled, monitor_thread, threads, late_logs >>
    /\ UNCHANGED << vars, resolverVars, runnerVars, reporterVars, tagVars,
                   managerVars >>

\* join(timeout=5) returns, because the thread is over or because the five
\* seconds have passed while the thread was inside log_current_metrics or
\* time.sleep, and stop() returns after it.
join_returns ==
    /\ caller_pc = "joining"
    /\ threads[monitor_thread] \in { "dead", "log", "sleep" }
    /\ caller_pc' = "idle"
    /\ stopped' = TRUE
    /\ UNCHANGED << enabled, monitoring, monitor_thread, threads, late_logs >>
    /\ UNCHANGED << vars, resolverVars, runnerVars, reporterVars, tagVars,
                   managerVars >>

\* while self.monitoring:
loop_check ==
    /\ \E t \in 1..Len(threads) :
        /\ threads[t] = "check"
        /\ threads' = [ threads EXCEPT ![t] = IF monitoring THEN "log" ELSE "dead" ]
    /\ UNCHANGED << enabled, monitoring, monitor_thread, caller_pc, stopped,
                    late_logs >>
    /\ UNCHANGED << vars, resolverVars, runnerVars, reporterVars, tagVars,
                   managerVars >>

\* log_current_metrics() inside the try: the metrics line is logged, or an
\* exception is caught and an error is logged in its place.
loop_log ==
    /\ \E t \in 1..Len(threads), outcome \in { "logged", "raise" } :
        /\ threads[t] = "log"
        /\ threads' = [ threads EXCEPT ![t] = "sleep" ]
        /\ late_logs' = IF outcome = "logged" /\ stopped /\ late_logs < MaxLateLogs
                        THEN late_logs + 1 ELSE late_logs
    /\ UNCHANGED << enabled, monitoring, monitor_thread, caller_pc, stopped >>
    /\ UNCHANGED << vars, resolverVars, runnerVars, reporterVars, tagVars,
                   managerVars >>

\* time.sleep(self.log_interval) returns.
loop_sleep ==
    /\ \E t \in 1..Len(threads) :
        /\ threads[t] = "sleep"
        /\ threads' = [ threads EXCEPT ![t] = "check" ]
    /\ UNCHANGED << enabled, monitoring, monitor_thread, caller_pc, stopped,
                    late_logs >>
    /\ UNCHANGED << vars, resolverVars, runnerVars, reporterVars, tagVars,
                   managerVars >>

MonitorNext ==
    \/ start
    \/ stop_monitor
    \/ join_returns
    \/ loop_check
    \/ loop_log
    \/ loop_sleep

MonitorSpec == MonitorInit /\ [][MonitorNext]_monitorVars

\* ------------------------------------------------------------ properties
Contains(log, e) == \E i \in 1..Len(log) : log[i] = e

Count(log, e) == Cardinality({ i \in 1..Len(log) : log[i] = e })

\* after_scenario has just returned (or raised) for scenario.idx.
ScenarioEnded == phase = "running" /\ pc = "idle" /\ scenario.idx > 0

Scenarios == test_results.scenarios

LastResult == Scenarios[Len(Scenarios)]

\* C1: for a scenario whose browser session was started in before_scenario,
\* after_scenario has called BrowserManager.stop exactly once when it is over,
\* on every path through the hook.
C1_StopExactlyOnce ==
    (ScenarioEnded /\ Contains(events, "Leased")) => Count(events, "Stop") = 1

\* C2: after N scenario ends the totals satisfy
\* passed + failed + skipped = total = N and the scenarios list has N entries.
C2_TotalsCountEveryScenario ==
    (phase = "running" /\ pc = "idle") =>
        /\ test_results.total = scenario.idx
        /\ test_results.passed + test_results.failed + test_results.skipped
             = test_results.total
        /\ Len(Scenarios) = scenario.idx

StateOf(e) ==
    CASE e = "Stop" -> "Released"
      [] e \in {"Pending", "Leased", "Executing", "Passed", "Failed", "Reported"} -> e
      [] OTHER -> "-"

RECURSIVE StateTrail(_)
StateTrail(log) ==
    IF log = << >> THEN << >>
    ELSE IF StateOf(Head(log)) = "-" THEN StateTrail(Tail(log))
    ELSE << StateOf(Head(log)) >> \o StateTrail(Tail(log))

\* C6: every dispatched scenario goes through Pending, Leased, Executing,
\* Passed or Failed, Reported, Released, in this order, each once, and ends
\* in Released.
C6_StateMachine ==
    ScenarioEnded =>
        \E outcome \in {"Passed", "Failed"} :
            StateTrail(events) =
                << "Pending", "Leased", "Executing", outcome, "Reported", "Released" >>

\* C7: a scenario whose browser start failed in before_scenario is recorded
\* as Failed when it ends.
C7_StartFailureRecorded ==
    (ScenarioEnded /\ ~ Contains(events, "Leased")) =>
        /\ Len(Scenarios) > 0
        /\ LastResult.name = scenario.idx
        /\ LastResult.status = "failed"
        /\ test_results.total = Len(Scenarios)

\* C8: the status stored in a recorded outcome is passed exactly for raw
\* passed, skipped exactly for raw skipped, failed for every other raw status.
C8_StatusMapping ==
    (ScenarioEnded /\ Contains(events, "Recorded")) =>
        /\ (LastResult.status = "passed") = (scenario.status = "passed")
        /\ (LastResult.status = "skipped") = (scenario.status = "skipped")
        /\ (LastResult.status = "failed") = (scenario.status \notin {"passed", "skipped"})

\* C9: the scenarios list only ever grows at its end, by the outcome of the
\* scenario that is ending; no step removes, reorders or rewrites an entry.
C9_AppendOnly ==
    [][ /\ Len(Scenarios') \in { Len(Scenarios), Len(Scenarios) + 1 }
        /\ SubSeq(Scenarios', 1, Len(Scenarios)) = Scenarios
        /\ Len(Scenarios') = Len(Scenarios) + 1 =>
              /\ pc = "ended"
              /\ Scenarios'[Len(Scenarios')].name = scenario.idx ]_vars

\* Two scenarios recorded, in the order they ended.
C9_Witness ==
    /\ Len(Scenarios) = 2
    /\ Scenarios[1].name = 1
    /\ Scenarios[2].name = 2
    /\ Scenarios[1].status # Scenarios[2].status

\* C10: a second after_all on the same run leaves the end time and the
\* duration as the first one set them.
C10_FinishIdempotent ==
    [][ phase = "ended" =>
          /\ test_results'.end_time = test_results.end_time
          /\ test_results'.duration = test_results.duration ]_vars

\* C15: a scenario begins only when no browser session is live (started and
\* BrowserManager.stop never called on it), and a scenario whose steps run
\* has the session its own before_scenario started.
C15_OneFreshSessionPerScenario ==
    [][ scenario'.idx # scenario.idx =>
          /\ ~ (session = "live" /\ ~ Contains(events, "Stop"))
          /\ pc' = "steps" => (session' = "live" /\ Contains(events', "Leased")) ]_vars

\* C16: with the Teams integration enabled and its webhook URL configured,
\* the webhook has received an alert for every scenario that ended recorded,
\* and one summary alert once after_all has run.
C16_TeamsAlertsSent ==
    config.teams = "enabled" =>
        /\ (ScenarioEnded /\ Contains(events, "Recorded")) =>
              \E i \in 1..Len(teamsCalls) :
                  /\ teamsCalls[i].kind = "scenario"
                  /\ teamsCalls[i].scenario = scenario.idx
        /\ (phase = "ended" /\ afterAllCalls = 1) =>
              Cardinality({ i \in 1..Len(teamsCalls) : teamsCalls[i].kind = "summary" }) = 1

\* C17: before_all always completes and leaves the run started with empty
\* totals; a Zephyr client whose constructor raised is None for the whole run
\* and receives no call, for any scenario or at the end of the run; the same
\* for a Jira client whose constructor raised.
C17_FailedInitExcluded ==
    /\ [][ phase = "new" =>
             /\ phase' = "running"
             /\ test_results' = [ EmptyResults EXCEPT !.start_time = now ] ]_vars
    /\ [] ( (phase # "new" /\ config.zephyr = "enabled_no_token") =>
              (zephyr_client = "None" /\ zephyrCalls = << >>) )
    /\ [] ( (phase # "new" /\ config.jira # "disabled" /\ jira_client = "None") =>
              jiraCalls = << >> )

\* Both constructors raised, the run went on to its end, and a scenario that
\* carries a test case id was recorded without any call to either client.
C17_Witness ==
    /\ phase = "ended"
    /\ config.zephyr = "enabled_no_token"
    /\ config.jira = "enabled" /\ jira_client = "None"
    /\ Len(Scenarios) = 2
    /\ Scenarios[1].test_case_id = Upper(TagTC1)
    /\ zephyrCalls = << >> /\ jiraCalls = << >>

\* C22: when a scenario that has a session fails and screenshot_on_failure is
\* true, exactly one screenshot is requested from its session; when the
\* capture raises, the outcome is still recorded (counted and appended, with
\* no screenshot reference) and the hook returns; when the scenario did not
\* fail or the policy is false, no screenshot is requested.
C22_ScreenshotOnFailure ==
    (ScenarioEnded /\ Contains(events, "Leased")) =>
        /\ IF scenario.status = "failed" /\ config.screenshot_on_failure
           THEN Count(events, "Screenshot") = 1
           ELSE Count(events, "Screenshot") = 0
        /\ Contains(events, "ScreenshotError") =>
              /\ Contains(events, "Recorded")
              /\ ~ hookRaised
              /\ test_results.total = Len(Scenarios)
              /\ LastResult.name = scenario.idx
              /\ ~ LastResult.screenshot

OrchestratorState == { "test_results", "browser_manager", "config_manager",
                       "logger", "scenario_start_time", "test_case_id" }

\* C25: a store step keeps the value under its key apart from the hooks' own
\* state: whatever the key, the step leaves what the hooks read as the run
\* totals, the browser manager, the configuration, the logger, the scenario
\* start time and the test-case id unchanged.
C25_StoreStepFrame ==
    [][ (pc = "steps" /\ stored' # stored) =>
            \A k \in OrchestratorState :
                (k \in DOMAIN stored') = (k \in DOMAIN stored) ]_vars

\* C26: after any sequence of scenario ends the scenarios list agrees with
\* the counters: for each status passed, failed and skipped, the number of
\* entries of the list with that status equals the counter of that status.
C26_ListAgreesWithCounters ==
    /\ Count([ i \in 1..Len(Scenarios) |-> Scenarios[i].status ], "passed")
          = test_results.passed
    /\ Count([ i \in 1..Len(Scenarios) |-> Scenarios[i].status ], "failed")
          = test_results.failed
    /\ Count([ i \in 1..Len(Scenarios) |-> Scenarios[i].status ], "skipped")
          = test_results.skipped

\* C29: the test-case id of a recorded outcome and of a Zephyr update comes
\* from the scenario's own tags only: a scenario without a TC tag is recorded
\* with no test-case id and triggers no Zephyr update, whatever ids earlier
\* scenarios carried and whether or not its browser started.
C29_IdFromOwnTags ==
    /\ \A i \in 1..Len(Scenarios) :
          ExtractTestCaseId(Scenarios[i].tags) = NoneVal =>
              ~ Truthy(Scenarios[i].test_case_id)
    /\ (ScenarioEnded /\ ExtractTestCaseId(scenario.tags) = NoneVal) =>
          /\ ~ Contains(events, "ZephyrAttempt")
          /\ \A i \in 1..Len(zephyrCalls) :
                zephyrCalls[i].scenario # scenario.idx

\* What one after_all step added to the email log.
EmailOfThisCall == SubSeq(emailLog', Len(emailLog) + 1, Len(emailLog'))

\* C30: after_all attempts the email summary at most once per run, and
\* attempts it exactly when reporting.email_enabled is true and
\* (reporting.email_on_failure_only is false or the failed counter is greater
\* than 0); building the reporter counts as part of the attempt, and an error
\* while building it or while sending is caught: the hook does not raise.
C30_EmailAttemptedOncePerPolicy ==
    /\ [][ afterAllCalls' = afterAllCalls + 1 =>
            LET due == /\ config.email_enabled
                       /\ \/ ~ config.email_on_failure_only
                          \/ test_results'.failed > 0
            IN  /\ Count(EmailOfThisCall, "Send") <= 1
                /\ due => \/ Count(EmailOfThisCall, "Send") = 1
                          \/ EmailOfThisCall = << "InitError" >>
                /\ ~ due => ~ Contains(EmailOfThisCall, "Send")
                /\ ~ config.email_enabled => EmailOfThisCall = << >>
                /\ ~ hookRaised'
                /\ phase' = "ended" ]_vars
    /\ [] ( afterAllCalls <= 1 => Count(emailLog, "Send") <= 1 )

\* A run with a failed scenario under the failure-only policy whose summary
\* was attempted once and failed to send.
C30_Witness ==
    /\ phase = "ended" /\ afterAllCalls = 1
    /\ config.email_enabled /\ config.email_on_failure_only
    /\ test_results.failed > 0
    /\ emailLog = << "Send", "SendError" >>

\* ------------------------------------------- properties of ConfigManager
\* The value a key of the file just read has once loaded: INI text goes
\* through the substitution and json.loads, a JSON value is taken as it is.
LoadedValue(file, section, key) ==
    IF file.kind = "ini" THEN IniValue(environ, file.data[section].d[key].s)
    ELSE file.data[section].d[key]

\* The (section, key) pairs a file defines.
Defines(file, section, key) ==
    /\ section \in DOMAIN file.data
    /\ key \in DOMAIN file.data[section].d

\* The (section, key) pairs the store holds.
Holds(store, section, key) ==
    /\ section \in DOMAIN store
    /\ store[section].kind = "dict"
    /\ key \in DOMAIN store[section].d

IsSet(name) == name \in DOMAIN environ /\ environ[name] # Unset

\* C11: for every row of the environment-variable table whose variable is
\* set, the store resolved by the constructor holds the value of the variable
\* under the row's (section, key), whatever the files gave; and a file that
\* defines a (section, key) an earlier source defined leaves the later value
\* in the store.
C11_EnvironmentWinsLaterOverrides ==
    [][ /\ load_pc = "custom_loaded" =>
              \A i \in 1..Len(env_mappings) :
                  IsSet(env_mappings[i].env_var) =>
                      /\ load_pc' = "loaded"
                      /\ Holds(config_data', env_mappings[i].section, env_mappings[i].key)
                      /\ config_data'[env_mappings[i].section].d[env_mappings[i].key]
                            = EnvValue(environ[env_mappings[i].env_var])
        /\ load_pc \in {"start", "ini_loaded", "json_loaded"} =>
              \A section \in DOMAIN source'.data, key \in FileKeys :
                  (Defines(source', section, key) /\ Holds(config_data, section, key)) =>
                      /\ load_pc' # "raised"
                      /\ Holds(config_data', section, key)
                      /\ config_data'[section].d[key] = LoadedValue(source', section, key)
      ]_resolverVars

\* C12: a load step whose file defines section S with key set K ends with
\* every key of K at the value the file gives it and every other key of S at
\* the value it had before the step.
C12_SectionMergedKeyByKey ==
    [][ (load_pc \in {"start", "ini_loaded", "json_loaded"}) =>
          \A section \in DOMAIN source'.data :
              source'.data[section].kind = "dict" =>
                  /\ load_pc' # "raised"
                  /\ \A key \in FileKeys :
                        /\ Defines(source', section, key) =>
                              /\ Holds(config_data', section, key)
                              /\ config_data'[section].d[key]
                                    = LoadedValue(source', section, key)
                        /\ (~ Defines(source', section, key)
                               /\ Holds(config_data, section, key)) =>
                              /\ Holds(config_data', section, key)
                              /\ config_data'[section].d[key]
                                    = config_data[section].d[key]
      ]_resolverVars

\* C13: on every store the constructor can leave, get(section, key, default)
\* returns without raising, and returns default when the store has no entry
\* for (section, key).
C13_GetNeverRaises ==
    got # NoGet =>
        /\ ~ got.raised
        /\ ~ Holds(config_data, got.section, got.key) => got.result = got.default

\* A string of the exact form ${NAME}, and its NAME.
IsRef(value) ==
    /\ value.t = "str"
    /\ StartsWith(value.s, << "$", "{" >>)
    /\ EndsWith(value.s, << "}" >>)

RefName(value) == SubSeq(value.s, 3, Len(value.s) - 1)

\* C19: a file of any kind that is loaded leaves, for each of its values of
\* the form ${NAME}, the value of the environment variable NAME (as text or
\* converted) when NAME is set and the literal text when it is not; a value
\* that comes from the environment-variable table is stored as it is.
C19_ReferencesSubstituted ==
    [][ /\ (load_pc \in {"start", "ini_loaded", "json_loaded"} /\ load_pc' # "raised") =>
              \A section \in DOMAIN source'.data, key \in FileKeys :
                  (Defines(source', section, key)
                      /\ IsRef(source'.data[section].d[key])) =>
                      LET name == RefName(source'.data[section].d[key])
                      IN  IF IsSet(name)
                          THEN config_data'[section].d[key]
                                  \in { PyStr(environ[name]), EnvValue(environ[name]) }
                          ELSE config_data'[section].d[key]
                                  = source'.data[section].d[key]
        /\ (load_pc = "custom_loaded" /\ load_pc' = "loaded") =>
              \A i \in 1..Len(env_mappings) :
                  (IsSet(env_mappings[i].env_var)
                      /\ IsRef(PyStr(environ[env_mappings[i].env_var]))) =>
                      config_data'[env_mappings[i].section].d[env_mappings[i].key]
                          = PyStr(environ[env_mappings[i].env_var])
      ]_resolverVars

\* What the claim of C20 gives a text: the boolean for true or false in any
\* letter case, the integer for a string of digits, the text itself otherwise.
Coerced(text) ==
    IF Lower(text) \in { TextTrue, TextFalse } THEN PyBool(Lower(text) = TextTrue)
    ELSE IF IsDigit(text) THEN PyInt(ParseInt(text))
    ELSE PyStr(text)

\* C20: a text value (not a ${NAME} reference) read from an INI file, and a
\* value read from the environment-variable table, is stored as the boolean
\* when it spells true or false in any letter case, as the integer when it is
\* an unsigned integer literal, and as the same string otherwise.
C20_LiteralsCoerced ==
    [][ /\ (load_pc \in {"start", "json_loaded"} /\ load_pc' # "raised"
              /\ source'.kind = "ini") =>
              \A section \in DOMAIN source'.data, key \in FileKeys :
                  (Defines(source', section, key)
                      /\ ~ IsRef(source'.data[section].d[key])) =>
                      config_data'[section].d[key]
                          = Coerced(source'.data[section].d[key].s)
        /\ (load_pc = "custom_loaded" /\ load_pc' = "loaded") =>
              \A i \in 1..Len(env_mappings) :
                  (IsSet(env_mappings[i].env_var)
                      /\ environ[env_mappings[i].env_var] # << >>) =>
                      config_data'[env_mappings[i].section].d[env_mappings[i].key]
                          = Coerced(environ[env_mappings[i].env_var])
      ]_resolverVars

\* C14: the runner exits with 0 exactly when os.system returned 0: every
\* non-zero status of the test command gives a non-zero exit code.
C14_ExitCodeReflectsStatus ==
    runner_pc = "exited" => (process_exit = 0 <=> exit_code = 0)

\* The rate is the number passed / total * 100.
IsRateOf(rate, passed, total) ==
    /\ rate.kind = "value"
    /\ rate.den # 0
    /\ rate.num * total = passed * 100 * rate.den

\* C18: the pass rate each reporter computes for a summary is
\* passed / total * 100 when total > 0 and 0 when total = 0, and neither
\* reporter raises ZeroDivisionError.
C18_PassRate ==
    \A rate \in { email_pass_rate, html_pass_rate } :
        rate # NoRate =>
            /\ rate.kind # "ZeroDivisionError"
            /\ summary.total > 0 => IsRateOf(rate, summary.passed, summary.total)
            /\ summary.total = 0 => (rate.kind = "value" /\ rate.num = 0)

\* Both reporters have reported an empty run.
C18_Witness ==
    /\ summary.total = 0
    /\ email_pass_rate # NoRate
    /\ html_pass_rate # NoRate

\* ----------------------------------------------- properties of the tag loop
\* The prefix of the tag is 'TC-' in any mix of upper and lower case.
PrefixIsTCAnyCase(tag) == Len(tag) >= 3 /\ Upper(SubSeq(tag, 1, 3)) = <<"T", "C", "-">>

\* The tags of a list whose prefix is 'TC-' in any case, in list order.
TCTags(tags) == SelectSeq(tags, PrefixIsTCAnyCase)

\* C21: the test-case id is taken from the first tag, in iteration order,
\* whose prefix is 'TC-' in any mix of case (TC-, tc-, Tc-, tC-); it is None
\* when no tag has such a prefix, and a later tag never replaces it.
C21_FirstTCTagAnyCase ==
    extracted_id # Unset =>
        IF TCTags(scenario_tags) = << >>
        THEN extracted_id = NoneVal
        ELSE extracted_id = Upper(Head(TCTags(scenario_tags)))

\* --------------------------------------------- properties of BrowserManager
Live == { k \in DOMAIN manager : manager[k] = "live" } \cup orphaned

\* C24: the manager never leaks a started resource: when start_browser has
\* raised partway, and when stop has returned or raised, none of the page,
\* the context, the browser and the Playwright driver that the manager
\* started is still live.
C24_NoLeakedResource ==
    manager_pc \in { "start_raised", "stopped", "stop_raised" } => Live = {}

\* ---------------------------------------------- properties of SystemMonitor
\* The threads whose loop is going on: inside the body of the loop, or at its
\* test with the flag set.
ActiveLoops ==
    { t \in 1..Len(threads) :
        \/ threads[t] \in { "log", "sleep" }
        \/ threads[t] = "check" /\ monitoring }

\* C27: whatever the interleaving of start, stop and the background loop, at
\* most one monitor loop is active at any time; a start() after a stop() that
\* returned never leaves two background threads both logging metrics.
C27_AtMostOneLoop ==
    /\ Cardinality(ActiveLoops) <= 1
    /\ Cardinality({ t \in 1..Len(threads) : threads[t] = "log" }) <= 1

\* C28: once stop() has returned and start() is not called again, the
\* background loop logs no further metrics.
C28_SilentAfterStop == late_logs = 0

TypeOK ==
    /\ config \in Configs
    /\ phase \in {"new", "running", "ended"}
    /\ pc \in {"idle", "steps", "ended"}
    /\ now \in 0..MaxClock
    /\ test_results.total \in 0..MaxScenarios

====
